---- MODULE Spec2Model ----
(***************************************************************************)
(* Model of src/kafka-network-automation.py: process_jobs workers that     *)
(* consume jobs from one Kafka partition, de-duplicate them against an     *)
(* etcd completion ledger, serialise work per device through an etcd lease *)
(* lock (AsyncNetworkDeviceLock) and commit the consumer position.         *)
(*                                                                         *)
(* The etcd store and the Kafka broker are shared by all workers.  Every   *)
(* await of the coroutine is one step of a worker, so steps of different   *)
(* workers interleave at exactly the suspension points of the code.        *)
(*                                                                         *)
(* All workers are consumers of group net-automation-group on the same     *)
(* partition: each has its own fetch position, taken from the group's      *)
(* committed offset when it starts or when the partition is handed to it   *)
(* again, so a message can reach several workers (the case the dedup       *)
(* check of STEP 1 exists for).  A lease lapses at any moment after it was *)
(* granted: the work may last longer than the TTL.                         *)
(***************************************************************************)
EXTENDS Integers, Sequences, FiniteSets, TLC

\* ---------------------------------------------------------------- bounds
\* Number of messages in the partition.
LogLen == 2

Workers == {"w1", "w2"}
JobIds == {"42", "43", "44"}
Devices == {"r1", "r2"}
None == "none"
\* A lease holder that is none of the modelled workers: a process of an
\* earlier run that died holding the lock, or another user of the store.
Other == "other"

\* payload["device"] of the job with payload["job_id"] = j: jobs 42 and 43
\* target the same device.
DeviceOf(j) == IF j = "44" THEN "r2" ELSE "r1"

\* Exceptions that reach the except clause of process_jobs.  RuntimeError
\* stands for RuntimeError and its subclasses, OtherError for every other
\* Exception, CancelledError for task cancellation (a BaseException).
ErrKinds == {"RuntimeError", "OtherError"}

VARIABLES
    log,        \* the partition: log[o] is the job_id of the message at offset o
    ledger,     \* etcd keys /jobs/<job_id>/status
    lease,      \* etcd keys /locks/device/<device>: holder of the live lease
    committed,  \* the consumer group's committed offset (next offset to deliver)
    position,   \* each consumer's fetch position
    pc,         \* each worker's place in process_jobs
    msg,        \* offset of the message the worker's iteration handles
    is_locked,  \* AsyncNetworkDeviceLock.is_locked of the iteration's guard
    exc,        \* exception in flight in the worker
    trace,      \* what the current iteration did so far, in order
    stops,      \* consumer.stop() calls since the worker's consumer.start()
    \* One call of a function of the HTTP client examples
    \* (src/api_httpx_async.py, src/api_example_threaded.py):
    apc,            \* the call's place in the function
    id,             \* argument id of get_pet_by_id
    retries,        \* argument retries
    retry,          \* loop variable of get_pet_by_id
    attempt,        \* loop variable of call_api
    replies,        \* what each request of the call was answered, in order
    waits,          \* the sleeps of the call, in order
    result,         \* the result dict of get_pet_by_id
    response_json,  \* the decoded body call_api returns
    raised,         \* the exception the call ended with
    \* Locals of retry_execution's wrapper, get_all_devices and
    \* get_all_starwars_people, and the data of the mock server:
    attempts,          \* attempts of the wrapper of retry_execution
    url,               \* url of get_all_devices, _url of get_all_starwars_people
    pagination_count,  \* pagination_count of get_all_devices
    pagination_max,    \* argument pagination_max of get_all_devices
    all_devices,       \* all_devices of the mock server
    results,           \* results of get_all_starwars_people
    max_count,         \* max_count of get_all_starwars_people
    max_calls          \* argument max_calls of get_all_starwars_people

\* The state of the job pipeline.
kafkaVars == <<log, ledger, lease, committed, position, pc, msg, is_locked,
               exc, trace, stops>>

\* The state of a call of an HTTP client function.
\* The state only the paging and decorator examples use.
loopVars == <<attempts, url, pagination_count, pagination_max, all_devices,
              results, max_count, max_calls>>

apiVars == <<apc, id, retries, retry, attempt, replies, waits, result,
             response_json, raised, loopVars>>

vars == <<kafkaVars, apiVars>>

Offsets == 1..LogLen

JobOf(w) == log[msg[w]]
DeviceOfMsg(w) == DeviceOf(JobOf(w))

\* The partitions the model starts from.  Job ids and devices are
\* interchangeable names, so the first message is job 42 without loss of
\* generality; the messages after it repeat it (a redelivered duplicate),
\* name another job on the same device, or a job on another device.
Logs == {l \in [Offsets -> JobIds] : l[1] = "42"}

\* --------------------------------------------------- HTTP client examples
\* Largest value of the argument retries of a call.
MaxRetries == 3

\* The arguments id of get_pet_by_id: the empty default and a pet id.
Ids == {"", "10"}

\* result["status_code"] while no response has arrived (None in the code).
NoStatus == 0

\* The bodies a server sends: two JSON documents and one that is no JSON.
Texts == {"{}", "[]", "<html>"}

\* What response.json() raises for a body that is no JSON.
DecodeError == "JSONDecodeError"

\* response.json(): the decoded document.
Json(text) ==
    CASE text = "{}" -> "dict()"
      [] text = "[]" -> "list()"
      [] OTHER -> DecodeError

\* What a request is answered: no response at all (the connection fails or
\* times out), a 200 with one of the bodies, or an error status.
Replies ==
    {[kind |-> "error", status_code |-> NoStatus, text |-> ""]}
    \cup {[kind |-> "response", status_code |-> 200, text |-> t] : t \in Texts}
    \cup {[kind |-> "response", status_code |-> s, text |-> "<html>"] :
              s \in {404, 500}}

\* response.raise_for_status() raises for the status.
RaisesForStatus(s) == s \in 400..599

\* The status codes get_pet_by_id does not retry on.
NoRetryCodes == {404}

\* result = {"response": None, "status_code": None, "error": None, "id": id}
NewResult(i) ==
    [response |-> None, status_code |-> NoStatus, error |-> None, id |-> i]

\* url while there is no page to request (None in the code).
NoUrl == 0

\* The paging and decorator examples are not running.
NoLoop ==
    /\ attempts = 0
    /\ url = NoUrl
    /\ pagination_count = 0
    /\ pagination_max = 0
    /\ all_devices = <<>>
    /\ results = <<>>
    /\ max_count = 0
    /\ max_calls = 0

\* No call of an HTTP client function is in progress.
NoCall ==
    /\ NoLoop
    /\ apc = "idle"
    /\ id = ""
    /\ retries = 0
    /\ retry = 0
    /\ attempt = 0
    /\ replies = <<>>
    /\ waits = <<>>
    /\ result = NewResult("")
    /\ response_json = None
    /\ raised = None

\* No worker of the job pipeline has been started.
NoWorker ==
    /\ log = [o \in Offsets |-> "42"]
    /\ ledger = [j \in JobIds |-> None]
    /\ lease = [d \in Devices |-> None]
    /\ committed = 1
    /\ position = [w \in Workers |-> 1]
    /\ pc = [w \in Workers |-> "start"]
    /\ msg = [w \in Workers |-> 0]
    /\ is_locked = [w \in Workers |-> FALSE]
    /\ exc = [w \in Workers |-> None]
    /\ trace = [w \in Workers |-> <<>>]
    /\ stops = [w \in Workers |-> 0]

\* -------------------------------------------------------------- job pipeline
Init ==
    /\ NoCall
    /\ log \in Logs
    /\ ledger = [j \in JobIds |-> None]
    /\ lease = [d \in Devices |-> None]
    /\ committed = 1
    /\ position = [w \in Workers |-> 1]
    /\ pc = [w \in Workers |-> "start"]
    /\ msg = [w \in Workers |-> 0]
    /\ is_locked = [w \in Workers |-> FALSE]
    /\ exc = [w \in Workers |-> None]
    /\ trace = [w \in Workers |-> <<>>]
    /\ stops = [w \in Workers |-> 0]

\* ----------------------------------------------------------------- helpers
Log(w, e) == trace' = [trace EXCEPT ![w] = Append(@, e)]
Goto(w, l) == pc' = [pc EXCEPT ![w] = l]
Has(w, e) == \E i \in DOMAIN trace[w] : trace[w][i] = e
Count(w, es) == Cardinality({i \in DOMAIN trace[w] : trace[w][i] \in es})
IndexOf(w, e) == CHOOSE i \in DOMAIN trace[w] : trace[w][i] = e

\* consumer.commit() without arguments commits the consumer's current
\* position: every message the consumer has fetched so far.
CommitOffsets(w) == committed' = position[w]

\* Where an exception raised inside the try block of STEP 2 goes: the
\* except RuntimeError clause (backoff), or out of the loop (finally).
Handler(kind) == IF kind = "RuntimeError" THEN "backoff" ELSE "finally"

\* ----------------------------------------------------------------- actions
\* await consumer.start(): the consumer joins the group and fetches from the
\* committed offset.
Start(w) ==
    /\ pc[w] = "start"
    /\ position' = [position EXCEPT ![w] = committed]
    /\ stops' = [stops EXCEPT ![w] = 0]
    /\ Goto(w, "poll")
    /\ UNCHANGED <<log, ledger, lease, committed, msg, is_locked, exc, trace>>
    /\ UNCHANGED apiVars

\* Mutant of Receive: the consumer takes a batch of two records and hands
\* the first to the loop.
ReceiveBatch(w) ==
    /\ pc[w] = "poll"
    /\ position[w] <= LogLen
    /\ msg' = [msg EXCEPT ![w] = position[w]]
    /\ position' = [position EXCEPT ![w] = @ + 2]
    /\ trace' = [trace EXCEPT ![w] = <<"recv">>]
    /\ is_locked' = [is_locked EXCEPT ![w] = FALSE]
    /\ Goto(w, "dedup")
    /\ UNCHANGED <<log, ledger, lease, committed, exc, stops>>
    /\ UNCHANGED apiVars

\* async for msg in consumer: the next message at the fetch position.
Receive(w) ==
    /\ pc[w] = "poll"
    /\ position[w] <= LogLen
    /\ msg' = [msg EXCEPT ![w] = position[w]]
    /\ position' = [position EXCEPT ![w] = @ + 1]
    /\ trace' = [trace EXCEPT ![w] = <<"recv">>]
    /\ is_locked' = [is_locked EXCEPT ![w] = FALSE]
    /\ Goto(w, "dedup")
    /\ UNCHANGED <<log, ledger, lease, committed, exc, stops>>
    /\ UNCHANGED apiVars

\* STEP 1: current_value, _ = await loop.run_in_executor(None, check_status)
CheckStatus(w) ==
    /\ pc[w] = "dedup"
    /\ IF ledger[JobOf(w)] = "COMPLETED"
       THEN Log(w, "read_completed") /\ Goto(w, "skip_commit")
       ELSE Log(w, "read_absent") /\ Goto(w, "enter")
    /\ UNCHANGED <<log, ledger, lease, committed, position, msg, is_locked,
                   exc, stops>>
    /\ UNCHANGED apiVars

\* etcd_client.get raises: nothing catches it inside the loop.
CheckStatusFail(w) ==
    /\ pc[w] = "dedup"
    /\ \E k \in ErrKinds : exc' = [exc EXCEPT ![w] = k]
    /\ Log(w, "read_fail")
    /\ Goto(w, "finally")
    /\ UNCHANGED <<log, ledger, lease, committed, position, msg, is_locked,
                   stops>>
    /\ UNCHANGED apiVars

\* Mutant of SkipCommit: the skip branch continues without committing.
SkipCommitNoCommit(w) ==
    /\ pc[w] = "skip_commit"
    /\ Goto(w, "poll")
    /\ UNCHANGED <<log, ledger, lease, committed, position, msg, is_locked,
                   exc, trace, stops>>
    /\ UNCHANGED apiVars

\* await consumer.commit() of the skip branch, then continue.
SkipCommit(w) ==
    /\ pc[w] = "skip_commit"
    /\ CommitOffsets(w)
    /\ Log(w, "commit")
    /\ Goto(w, "poll")
    /\ UNCHANGED <<log, ledger, lease, position, msg, is_locked, exc, stops>>
    /\ UNCHANGED apiVars

\* The commit of the skip branch raises: it is outside the try of STEP 2,
\* so every kind of error leaves the loop.
SkipCommitFail(w) ==
    /\ pc[w] = "skip_commit"
    /\ \E k \in ErrKinds : exc' = [exc EXCEPT ![w] = k]
    /\ Log(w, "commit_fail")
    /\ Goto(w, "finally")
    /\ UNCHANGED <<log, ledger, lease, committed, position, msg, is_locked, stops>>
    /\ UNCHANGED apiVars

\* Mutant of AEnter: the result of lock.acquire() is not looked at.
AEnterIgnoreResult(w) ==
    /\ pc[w] = "enter"
    /\ IF lease[DeviceOfMsg(w)] = None
       THEN /\ lease' = [lease EXCEPT ![DeviceOfMsg(w)] = w]
            /\ Log(w, "acquired")
       ELSE /\ Log(w, "acquire_false")
            /\ UNCHANGED lease
    /\ is_locked' = [is_locked EXCEPT ![w] = TRUE]
    /\ Goto(w, "work")
    /\ UNCHANGED <<log, ledger, committed, position, msg, exc, stops>>
    /\ UNCHANGED apiVars

\* Mutant of AEnter: lock.acquire(timeout=None), which waits until the key
\* is free.
AEnterBlocking(w) ==
    /\ pc[w] = "enter"
    /\ lease[DeviceOfMsg(w)] = None
    /\ lease' = [lease EXCEPT ![DeviceOfMsg(w)] = w]
    /\ is_locked' = [is_locked EXCEPT ![w] = TRUE]
    /\ Log(w, "acquired")
    /\ Goto(w, "work")
    /\ UNCHANGED <<log, ledger, committed, position, msg, exc, stops>>
    /\ UNCHANGED apiVars

\* AsyncNetworkDeviceLock(etcd_client, device).__aenter__: lock.acquire()
\* puts the lock key under a fresh lease if the key is absent and returns
\* True; it returns False when the key stayed held until its timeout.
AEnter(w) ==
    /\ pc[w] = "enter"
    /\ IF lease[DeviceOfMsg(w)] = None
       THEN /\ lease' = [lease EXCEPT ![DeviceOfMsg(w)] = w]
            /\ is_locked' = [is_locked EXCEPT ![w] = TRUE]
            /\ Log(w, "acquired")
            /\ Goto(w, "work")
            /\ UNCHANGED exc
       ELSE /\ Log(w, "acquire_false")
            /\ exc' = [exc EXCEPT ![w] = "RuntimeError"]
            /\ Goto(w, Handler("RuntimeError"))
                    /\ UNCHANGED <<lease, is_locked>>
    /\ UNCHANGED <<log, ledger, committed, position, msg, stops>>
    /\ UNCHANGED apiVars

\* lock.acquire() raises (the store cannot be reached): the exception
\* leaves __aenter__ before is_locked is set, and __aexit__ is not called.
AEnterFail(w) ==
    /\ pc[w] = "enter"
    /\ \E k \in ErrKinds :
          /\ exc' = [exc EXCEPT ![w] = k]
          /\ Goto(w, Handler(k))
    /\ Log(w, "acquire_fail")
    /\ UNCHANGED <<log, ledger, lease, committed, position, msg, is_locked,
                   stops>>
    /\ UNCHANGED apiVars

\* STEP 3: the protected work (await asyncio.sleep(2)) returns.
Work(w) ==
    /\ pc[w] = "work"
    /\ Log(w, "work_ok")
    /\ Goto(w, "mark")
    /\ UNCHANGED <<log, ledger, lease, committed, position, msg, is_locked,
                   exc, stops>>
    /\ UNCHANGED apiVars

\* The protected work raises an exception of kind k inside the async with.
WorkFail(w) ==
    /\ pc[w] = "work"
    /\ \E k \in ErrKinds : exc' = [exc EXCEPT ![w] = k]
    /\ Log(w, "work_fail")
    /\ Goto(w, "aexit")
    /\ UNCHANGED <<log, ledger, lease, committed, position, msg, is_locked,
                   stops>>
    /\ UNCHANGED apiVars

\* The task is cancelled while it awaits the protected work.
Cancel(w) ==
    /\ pc[w] = "work"
    /\ exc' = [exc EXCEPT ![w] = "CancelledError"]
    /\ Log(w, "cancelled")
    /\ Goto(w, "aexit")
    /\ UNCHANGED <<log, ledger, lease, committed, position, msg, is_locked,
                   stops>>
    /\ UNCHANGED apiVars

\* Mutant of MarkComplete: the put of the completion marker is left out.
MarkCompleteNoPut(w) ==
    /\ pc[w] = "mark"
    /\ Goto(w, "aexit")
    /\ UNCHANGED <<log, ledger, lease, committed, position, msg, is_locked,
                   exc, trace, stops>>
    /\ UNCHANGED apiVars

\* STEP 4: etcd_client.put(job_status_key, "COMPLETED")
MarkComplete(w) ==
    /\ pc[w] = "mark"
    /\ ledger' = [ledger EXCEPT ![JobOf(w)] = "COMPLETED"]
    /\ Log(w, "mark")
    /\ Goto(w, "aexit")
    /\ UNCHANGED <<log, lease, committed, position, msg, is_locked, exc, stops>>
    /\ UNCHANGED apiVars

\* The put raises: the marker is not written.
MarkCompleteFail(w) ==
    /\ pc[w] = "mark"
    /\ \E k \in ErrKinds : exc' = [exc EXCEPT ![w] = k]
    /\ Log(w, "mark_fail")
    /\ Goto(w, "aexit")
    /\ UNCHANGED <<log, ledger, lease, committed, position, msg, is_locked,
                   stops>>
    /\ UNCHANGED apiVars

\* Mutant of AfterExit: __aexit__ returns a true value, which suppresses
\* the exception in flight.
AfterExitSuppress(e) == "commit"

\* Where control goes when __aexit__ returned (it returns None, so an
\* exception in flight is re-raised).
AfterExit(e) == IF e = None THEN "commit" ELSE Handler(e)

\* Mutant of AExit: the lock is released on the normal path only.
AExitOnSuccessOnly(w) ==
    /\ pc[w] = "aexit"
    /\ IF is_locked[w] /\ exc[w] = None
       THEN /\ lease' = [lease EXCEPT ![DeviceOfMsg(w)] =
                            IF @ = w THEN None ELSE @]
            /\ is_locked' = [is_locked EXCEPT ![w] = FALSE]
            /\ Log(w, "release")
       ELSE UNCHANGED <<lease, is_locked, trace>>
    /\ Goto(w, AfterExit(exc[w]))
    /\ UNCHANGED <<log, ledger, committed, position, msg, exc, stops>>
    /\ UNCHANGED apiVars

\* __aexit__: if self.is_locked, lock.release() deletes the lock key when
\* it still carries this guard's lease, then is_locked = False.
AExit(w) ==
    /\ pc[w] = "aexit"
    /\ IF is_locked[w]
       THEN /\ lease' = [lease EXCEPT ![DeviceOfMsg(w)] =
                            IF @ = w THEN None ELSE @]
            /\ is_locked' = [is_locked EXCEPT ![w] = FALSE]
            /\ Log(w, "release")
       ELSE UNCHANGED <<lease, is_locked, trace>>
    /\ Goto(w, AfterExit(exc[w]))
    /\ UNCHANGED <<log, ledger, committed, position, msg, exc,
                   stops>>
    /\ UNCHANGED apiVars

\* lock.release() raises: is_locked keeps its value and the new exception
\* replaces the one in flight.
AExitFail(w) ==
    /\ pc[w] = "aexit"
    /\ is_locked[w]
    /\ \E k \in ErrKinds :
          /\ exc' = [exc EXCEPT ![w] = k]
          /\ Goto(w, Handler(k))
    /\ Log(w, "release_fail")
    /\ UNCHANGED <<log, ledger, lease, committed, position, msg, is_locked,
                   stops>>
    /\ UNCHANGED apiVars

\* STEP 5: await consumer.commit() after the async with block.
Commit(w) ==
    /\ pc[w] = "commit"
    /\ CommitOffsets(w)
    /\ Log(w, "commit")
    /\ Goto(w, "poll")
    /\ UNCHANGED <<log, ledger, lease, position, msg, is_locked, exc, stops>>
    /\ UNCHANGED apiVars

\* The commit of STEP 5 raises inside the try block.
CommitFail(w) ==
    /\ pc[w] = "commit"
    /\ \E k \in ErrKinds :
          /\ exc' = [exc EXCEPT ![w] = k]
          /\ Goto(w, Handler(k))
    /\ Log(w, "commit_fail")
    /\ UNCHANGED <<log, ledger, lease, committed, position, msg, is_locked, stops>>
    /\ UNCHANGED apiVars

\* except RuntimeError: log, await asyncio.sleep(5), next iteration.
Backoff(w) ==
    /\ pc[w] = "backoff"
    /\ exc' = [exc EXCEPT ![w] = None]
    /\ Log(w, "backoff_sleep")
    /\ Goto(w, "poll")
    /\ UNCHANGED <<log, ledger, lease, committed, position, msg, is_locked, stops>>
    /\ UNCHANGED apiVars

\* Mutant of Finally: the loop is left without the finally clause, so the
\* consumer is not stopped.
FinallyNoStop(w) ==
    /\ pc[w] = "finally"
    /\ Goto(w, "ended")
    /\ msg' = [msg EXCEPT ![w] = 0]
    /\ position' = [position EXCEPT ![w] = 1]
    /\ is_locked' = [is_locked EXCEPT ![w] = FALSE]
    /\ trace' = [trace EXCEPT ![w] = <<>>]
    /\ UNCHANGED <<log, ledger, lease, committed, exc, stops>>
    /\ UNCHANGED apiVars

\* finally: await consumer.stop(); the exception leaves process_jobs and
\* the coroutine's frame (msg, the guard, the iteration) is gone.
Finally(w) ==
    /\ pc[w] = "finally"
    /\ stops' = [stops EXCEPT ![w] = @ + 1]
    /\ Goto(w, "ended")
    /\ msg' = [msg EXCEPT ![w] = 0]
    /\ position' = [position EXCEPT ![w] = 1]
    /\ is_locked' = [is_locked EXCEPT ![w] = FALSE]
    /\ trace' = [trace EXCEPT ![w] = <<>>]
    /\ UNCHANGED <<log, ledger, lease, committed, exc>>
    /\ UNCHANGED apiVars

\* ------------------------------------------------------------ environment
\* The lease of a lock key lapses (nothing in the code refreshes it): etcd
\* deletes the key.
LeaseExpire(d) ==
    /\ lease[d] # None
    /\ lease' = [lease EXCEPT ![d] = None]
    /\ UNCHANGED <<log, ledger, committed, position, pc, msg, is_locked, exc,
                   trace, stops>>
    /\ UNCHANGED apiVars

\* The worker process dies at a suspension point: nothing of the coroutine
\* runs any more, the store and the broker keep what they hold.
Crash(w) ==
    /\ pc[w] \notin {"start", "crashed", "ended"}
    /\ Goto(w, "crashed")
    /\ is_locked' = [is_locked EXCEPT ![w] = FALSE]
    /\ exc' = [exc EXCEPT ![w] = None]
    /\ trace' = [trace EXCEPT ![w] = <<>>]
    /\ msg' = [msg EXCEPT ![w] = 0]
    /\ position' = [position EXCEPT ![w] = 1]
    /\ stops' = [stops EXCEPT ![w] = 0]
    /\ UNCHANGED <<log, ledger, lease, committed>>
    /\ UNCHANGED apiVars

\* asyncio.run(process_jobs()) is run again by the supervisor: a new
\* process with a new consumer, nothing of the old one in memory.
Restart(w) ==
    /\ pc[w] \in {"crashed", "ended"}
    /\ Goto(w, "start")
    /\ is_locked' = [is_locked EXCEPT ![w] = FALSE]
    /\ exc' = [exc EXCEPT ![w] = None]
    /\ trace' = [trace EXCEPT ![w] = <<>>]
    /\ msg' = [msg EXCEPT ![w] = 0]
    /\ position' = [position EXCEPT ![w] = 1]
    /\ stops' = [stops EXCEPT ![w] = 0]
    /\ UNCHANGED <<log, ledger, lease, committed>>
    /\ UNCHANGED apiVars

\* A group rebalance hands the partition to the consumer again: it fetches
\* from the committed offset (the broker's redelivery of unacknowledged
\* messages).  It happens between two iterations; what the last iteration
\* left in msg and trace is dead by then and is cleared.
Rebalance(w) ==
    /\ pc[w] = "poll"
    /\ position[w] # committed
    /\ position' = [position EXCEPT ![w] = committed]
    /\ msg' = [msg EXCEPT ![w] = 0]
    /\ trace' = [trace EXCEPT ![w] = <<>>]
    /\ UNCHANGED <<log, ledger, lease, committed, pc, is_locked, exc, stops>>
    /\ UNCHANGED apiVars

\* The steps of process_jobs when nothing fails.
Step(w) ==
    \/ Start(w) \/ Receive(w) \/ CheckStatus(w) \/ SkipCommit(w)
    \/ AEnter(w) \/ Work(w) \/ MarkComplete(w) \/ AExit(w) \/ Commit(w)
    \/ Backoff(w)

\* The steps in which a call of process_jobs raises, and the way out.
FaultStep(w) ==
    \/ CheckStatusFail(w) \/ SkipCommitFail(w) \/ WorkFail(w) \/ Cancel(w)
    \/ AEnterFail(w) \/ MarkCompleteFail(w) \/ AExitFail(w) \/ CommitFail(w)
    \/ Finally(w)

Next ==
    \/ \E w \in Workers : Step(w)
    \/ \E w \in Workers : FaultStep(w)
    \/ \E w \in Workers : Crash(w)
    \/ \E w \in Workers : Restart(w)
    \/ \E w \in Workers : Rebalance(w)
    \/ \E d \in Devices : LeaseExpire(d)

Spec == Init /\ [][Next]_vars

\* Runs in which no call fails and no process dies: the workers and the
\* broker keep running, every lease lapses unless it is released first, and
\* the broker redelivers from the committed offset.
LiveNext ==
    \/ \E w \in Workers : Step(w)
    \/ \E w \in Workers : Rebalance(w)
    \/ \E d \in Devices : LeaseExpire(d)

\* As Init, but a lock may be held when the workers start (by a process of
\* an earlier run, or by another user of the store) until its lease lapses.
LiveInit ==
    /\ NoCall
    /\ log \in Logs
    /\ ledger = [j \in JobIds |-> None]
    /\ lease \in [Devices -> {None, Other}]
    /\ committed = 1
    /\ position = [w \in Workers |-> 1]
    /\ pc = [w \in Workers |-> "start"]
    /\ msg = [w \in Workers |-> 0]
    /\ is_locked = [w \in Workers |-> FALSE]
    /\ exc = [w \in Workers |-> None]
    /\ trace = [w \in Workers |-> <<>>]
    /\ stops = [w \in Workers |-> 0]

LiveSpec ==
    /\ LiveInit
    /\ [][LiveNext]_vars
    /\ \A w \in Workers : WF_vars(Step(w)) /\ WF_vars(Rebalance(w))
    /\ \A d \in Devices : WF_vars(LeaseExpire(d))

\* As LiveSpec, but a lease need not lapse while a worker runs (60 s is
\* longer than an acquisition attempt) and a holder outside the model may
\* keep its lock for good: only the workers' own steps are fair.
HeldSpec ==
    /\ LiveInit
    /\ [][LiveNext]_vars
    /\ \A w \in Workers : WF_vars(Step(w))

\* The worker is between a successful __aenter__ and the matching __aexit__.
InSection(w) == pc[w] \in {"work", "mark"}

\* ---------------------------------------------- get_pet_by_id (httpx, async)
\* The exception an attempt of get_pet_by_id ends with for the answer r
\* (None: the attempt returns): client.get raises a RequestError, a status
\* outside NoRetryCodes goes through raise_for_status and response.json().
PetError(r) ==
    IF r.kind = "error" THEN "RequestError"
    ELSE IF r.status_code \in NoRetryCodes THEN None
    ELSE IF RaisesForStatus(r.status_code) THEN "HTTPStatusError"
    ELSE IF Json(r.text) = DecodeError THEN DecodeError
    ELSE None

\* backoff_timer = (2**retry) * 0.5, counted in half seconds.
PetBackoff(r) == 2^r

\* for retry in range(retries): the iteration for retry = r, or, when the
\* range is used up, result["error"] = "max_retries"; return result.
PetFor(r, res) ==
    IF r < retries
    THEN /\ retry' = r
         /\ result' = res
         /\ apc' = "pet_get"
    ELSE /\ result' = [res EXCEPT !.error = "max_retries"]
         /\ apc' = "returned"
         /\ UNCHANGED retry

PetInit ==
    /\ NoWorker
    /\ NoLoop
    /\ apc = "pet_start"
    /\ id \in Ids
    /\ retries \in 0..MaxRetries
    /\ retry = 0
    /\ attempt = 0
    /\ replies = <<>>
    /\ waits = <<>>
    /\ result = NewResult("")
    /\ response_json = None
    /\ raised = None

\* The call up to its first request: the check of id, the result dict.
PetStart ==
    /\ apc = "pet_start"
    /\ IF id = ""
       THEN /\ raised' = "ValueError"
            /\ apc' = "raised"
            /\ UNCHANGED <<retry, result>>
       ELSE /\ PetFor(0, NewResult(id))
            /\ UNCHANGED raised
    /\ UNCHANGED <<id, retries, attempt, replies, waits, response_json>>
    /\ UNCHANGED kafkaVars
    /\ UNCHANGED loopVars

\* await client.get(...) is answered r: the try block and its handlers.
PetGet(r) ==
    /\ apc = "pet_get"
    /\ replies' = Append(replies, r)
    /\ LET seen == IF r.kind = "error" THEN result
                   ELSE [result EXCEPT !.status_code = r.status_code]
       IN  IF PetError(r) # None
           THEN /\ result' = [seen EXCEPT !.error = PetError(r)]
                /\ apc' = "pet_sleep"
           ELSE /\ result' = IF r.status_code \in NoRetryCodes THEN seen
                             ELSE [seen EXCEPT !.response = Json(r.text)]
                /\ apc' = "returned"
    /\ UNCHANGED <<id, retries, retry, attempt, waits, response_json, raised>>
    /\ UNCHANGED kafkaVars
    /\ UNCHANGED loopVars

\* await asyncio.sleep(backoff_timer), then the next turn of the loop.
PetSleep ==
    /\ apc = "pet_sleep"
    /\ waits' = Append(waits, PetBackoff(retry))
    /\ PetFor(retry + 1, result)
    /\ UNCHANGED <<id, retries, attempt, replies, response_json, raised>>
    /\ UNCHANGED kafkaVars
    /\ UNCHANGED loopVars

PetNext ==
    \/ PetStart
    \/ \E r \in Replies : PetGet(r)
    \/ PetSleep

PetSpec == PetInit /\ [][PetNext]_vars

\* ------------------------------------------------ call_api (requests, sync)
\* The RequestException an attempt of call_api ends with for the answer r
\* (None: the attempt returns the decoded body).
ApiError(r) ==
    IF r.kind = "error" THEN "ConnectionError"
    ELSE IF RaisesForStatus(r.status_code) THEN "HTTPError"
    ELSE IF Json(r.text) = DecodeError THEN DecodeError
    ELSE None

\* Mutant of MaxAttempts: for attempt in range(retries).
MaxAttemptsShort(r) == r

\* for attempt in range(retries + 1)
MaxAttempts(r) == r + 1

\* wait_time = 2**attempt
WaitTime(a) == 2^a

\* The iteration of the for loop for attempt = a; when the range is used
\* up the function ends without a return statement (it returns None).
ApiFor(a) ==
    IF a < MaxAttempts(retries)
    THEN attempt' = a /\ apc' = "api_get"
    ELSE apc' = "returned" /\ UNCHANGED attempt

ApiInit ==
    /\ NoWorker
    /\ NoLoop
    /\ apc = "api_start"
    /\ id = ""
    /\ retries \in 0..MaxRetries
    /\ retry = 0
    /\ attempt = 0
    /\ replies = <<>>
    /\ waits = <<>>
    /\ result = NewResult("")
    /\ response_json = None
    /\ raised = None

\* The call up to its first request: token, headers.
ApiStart ==
    /\ apc = "api_start"
    /\ ApiFor(0)
    /\ UNCHANGED <<id, retries, retry, replies, waits, result, response_json,
                   raised>>
    /\ UNCHANGED kafkaVars
    /\ UNCHANGED loopVars

\* requests.get(...) is answered r: the try block and the except clause up
\* to the sleep.
ApiGet(r) ==
    /\ apc = "api_get"
    /\ replies' = Append(replies, r)
    /\ IF ApiError(r) = None
       THEN /\ response_json' = Json(r.text)
            /\ apc' = "returned"
            /\ UNCHANGED raised
       ELSE IF attempt < retries
       THEN /\ apc' = "api_sleep"
            /\ UNCHANGED <<response_json, raised>>
       ELSE /\ raised' = ApiError(r)
            /\ apc' = "raised"
            /\ UNCHANGED response_json
    /\ UNCHANGED <<id, retries, retry, attempt, waits, result>>
    /\ UNCHANGED kafkaVars
    /\ UNCHANGED loopVars

\* time.sleep(wait_time), then the next turn of the loop.
ApiSleep ==
    /\ apc = "api_sleep"
    /\ waits' = Append(waits, WaitTime(attempt))
    /\ ApiFor(attempt + 1)
    /\ UNCHANGED <<id, retries, retry, replies, result, response_json, raised>>
    /\ UNCHANGED kafkaVars
    /\ UNCHANGED loopVars

ApiNext ==
    \/ ApiStart
    \/ \E r \in Replies : ApiGet(r)
    \/ ApiSleep

ApiSpec == ApiInit /\ [][ApiNext]_vars

\* ------------------------------------------- retry_execution (decorator)
\* retries: int = 3
DefaultRetries == 3

\* What risky_business returns.
Success == "Success! You survived the coin flip."

\* What a call of the wrapped function ends with: its return value, or one
\* of the exceptions risky_business raises (all subclasses of Exception).
FuncOutcomes == {Success, "ValueError", "KeyError", "RuntimeError",
                 "ZeroDivisionError"}

\* Mutant of MoreAttempts: while attempts <= retries.
MoreAttemptsInclusive(a) == a <= retries

\* while attempts < retries
MoreAttempts(a) == a < retries

\* The while loop with attempts = a: another call of func, or the end of
\* the wrapper, which has no return statement there (it returns None).
DecoWhile(a) ==
    /\ attempts' = a
    /\ apc' = IF MoreAttempts(a) THEN "deco_call" ELSE "returned"

DecoInit ==
    /\ NoWorker
    /\ apc = "deco_start"
    /\ id = ""
    /\ retries \in 0..MaxRetries
    /\ retry = 0
    /\ attempt = 0
    /\ replies = <<>>
    /\ waits = <<>>
    /\ result = None
    /\ response_json = None
    /\ raised = None
    /\ NoLoop

\* wrapper(*args, **kwargs) is called: attempts = 0.
DecoStart ==
    /\ apc = "deco_start"
    /\ DecoWhile(0)
    /\ UNCHANGED <<id, retries, retry, attempt, replies, waits, result,
                   response_json, raised>>
    /\ UNCHANGED <<url, pagination_count, pagination_max, all_devices,
                   results, max_count, max_calls>>
    /\ UNCHANGED kafkaVars

\* result = func(*args, **kwargs) ends with o: return result, or the
\* except clause and the next turn of the loop.
DecoCall(o) ==
    /\ apc = "deco_call"
    /\ replies' = Append(replies, o)
    /\ IF o = Success
       THEN /\ result' = o
            /\ apc' = "returned"
            /\ UNCHANGED attempts
       ELSE /\ DecoWhile(attempts + 1)
            /\ UNCHANGED result
    /\ UNCHANGED <<id, retries, retry, attempt, waits, response_json, raised>>
    /\ UNCHANGED <<url, pagination_count, pagination_max, all_devices,
                   results, max_count, max_calls>>
    /\ UNCHANGED kafkaVars

DecoNext ==
    \/ DecoStart
    \/ \E o \in FuncOutcomes : DecoCall(o)

DecoSpec == DecoInit /\ [][DecoNext]_vars

\* ------------------------------- get_all_devices and the mock server's pages
\* Largest number of devices the mock server holds.
MaxDevices == 6

\* The page size of the mock server (limit).
Limit == 2

\* Largest value of the argument pagination_max.
MaxPagination == 6

\* get_devices(page, limit) of the mock server: the slice of all_devices
\* for the page, and the next page if this one is full.
GetDevices(page) ==
    LET skip == (page - 1) * Limit
        last == IF skip + Limit < Len(all_devices) THEN skip + Limit
                ELSE Len(all_devices)
        devices == SubSeq(all_devices, skip + 1, last)
    IN  [kind |-> "ok",
         devices |-> devices,
         next_url |-> IF Len(devices) = Limit THEN page + 1 ELSE NoUrl]

\* call_api(url) raised: there is no page.
NoPage == [kind |-> "error", devices |-> <<>>, next_url |-> NoUrl]

DevInit ==
    /\ NoWorker
    /\ apc = "dev_start"
    /\ id = ""
    /\ retries = 0
    /\ retry = 0
    /\ attempt = 0
    /\ replies = <<>>
    /\ waits = <<>>
    /\ result = <<>>
    /\ response_json = None
    /\ raised = None
    /\ attempts = 0
    /\ url = NoUrl
    /\ pagination_count = 0
    /\ pagination_max \in 2..MaxPagination
    /\ all_devices \in {[i \in 1..n |-> i] : n \in 0..MaxDevices}
    /\ results = <<>>
    /\ max_count = 0
    /\ max_calls = 0

\* result = []; pagination_count = 1; url = f"{_base_url}/devices", which
\* the server reads as page 1.
DevStart ==
    /\ apc = "dev_start"
    /\ result' = <<>>
    /\ pagination_count' = 1
    /\ url' = 1
    /\ apc' = "dev_call"
    /\ UNCHANGED <<id, retries, retry, attempt, replies, waits, response_json,
                   raised>>
    /\ UNCHANGED <<attempts, pagination_max, all_devices, results, max_count,
                   max_calls>>
    /\ UNCHANGED kafkaVars

\* One turn of while url: r = call_api(url=url) returns the page, then the
\* count, the limit check, result.extend and the look at next_url.
DevCall ==
    /\ apc = "dev_call"
    /\ url # NoUrl
    /\ LET r == GetDevices(url) IN
          /\ replies' = Append(replies, r)
          /\ pagination_count' = pagination_count + 1
          /\ IF pagination_count + 1 >= pagination_max
             THEN /\ raised' = "SystemError"
                  /\ apc' = "raised"
                  /\ UNCHANGED <<result, url>>
             ELSE /\ result' = result \o r.devices
                  /\ UNCHANGED raised
                  /\ IF r.next_url # NoUrl
                     THEN url' = r.next_url /\ apc' = "dev_call"
                     ELSE apc' = "returned" /\ UNCHANGED url
    /\ UNCHANGED <<id, retries, retry, attempt, waits, response_json>>
    /\ UNCHANGED <<attempts, pagination_max, all_devices, results, max_count,
                   max_calls>>
    /\ UNCHANGED kafkaVars

\* call_api(url=url) raises after its own retries: the exception leaves
\* get_all_devices.
DevCallFail ==
    /\ apc = "dev_call"
    /\ url # NoUrl
    /\ replies' = Append(replies, NoPage)
    /\ raised' = "RequestException"
    /\ apc' = "raised"
    /\ UNCHANGED <<id, retries, retry, attempt, waits, result, response_json>>
    /\ UNCHANGED loopVars
    /\ UNCHANGED kafkaVars

DevNext ==
    \/ DevStart
    \/ DevCall
    \/ DevCallFail

DevSpec == DevInit /\ [][DevNext]_vars

\* ------------------------------------ get_all_starwars_people (httpx, async)
\* Largest value of the argument max_calls.
MaxCalls == 4

\* Number of pages the server has.
MaxPages == 3

\* What a request for page u is answered: no response, an error status, or
\* a page with its results and the next page (None on the last page, and
\* wherever the server ends the list).
SwReplies(u) ==
    {[kind |-> k, results |-> <<>>, next |-> NoUrl] :
        k \in {"RequestError", "HTTPStatusError"}}
    \cup {[kind |-> "ok", results |-> <<u>>, next |-> n] :
             n \in {NoUrl} \cup {v \in {u + 1} : v <= MaxPages}}

SwInit ==
    /\ NoWorker
    /\ apc = "sw_start"
    /\ id = ""
    /\ retries \in 0..MaxRetries
    /\ retry = 0
    /\ attempt = 0
    /\ replies = <<>>
    /\ waits = <<>>
    /\ result = NewResult("")
    /\ response_json = None
    /\ raised = None
    /\ attempts = 0
    /\ url = NoUrl
    /\ pagination_count = 0
    /\ pagination_max = 0
    /\ all_devices = <<>>
    /\ results = <<>>
    /\ max_count = 0
    /\ max_calls \in 0..MaxCalls

\* _url = "https://swapi.dev/api/people/" (the first page); results = [];
\* max_count = 0
SwStart ==
    /\ apc = "sw_start"
    /\ url' = 1
    /\ results' = <<>>
    /\ max_count' = 0
    /\ apc' = "sw_while"
    /\ UNCHANGED <<id, retries, retry, attempt, replies, waits, result,
                   response_json, raised>>
    /\ UNCHANGED <<attempts, pagination_count, pagination_max, all_devices,
                   max_calls>>
    /\ UNCHANGED kafkaVars

\* while _url: the for loop starts again, or return results.
SwWhile ==
    /\ apc = "sw_while"
    /\ IF url # NoUrl
       THEN retry' = 0 /\ apc' = "sw_for"
       ELSE apc' = "returned" /\ UNCHANGED retry
    /\ UNCHANGED <<id, retries, attempt, replies, waits, result, response_json,
                   raised>>
    /\ UNCHANGED loopVars
    /\ UNCHANGED kafkaVars

\* for retry in range(retries): the count and the max_calls check of the
\* turn, or the end of the range, which leads back to while _url.  The
\* StopIteration raised in the coroutine reaches the caller as RuntimeError.
SwFor ==
    /\ apc = "sw_for"
    /\ IF retry < retries
       THEN /\ max_count' = max_count + 1
            /\ IF max_count + 1 > max_calls
               THEN raised' = "RuntimeError" /\ apc' = "raised"
               ELSE apc' = "sw_get" /\ UNCHANGED raised
       ELSE /\ apc' = "sw_while"
            /\ UNCHANGED <<max_count, raised>>
    /\ UNCHANGED <<id, retries, retry, attempt, replies, waits, result,
                   response_json>>
    /\ UNCHANGED <<attempts, url, pagination_count, pagination_max,
                   all_devices, results, max_calls>>
    /\ UNCHANGED kafkaVars

\* await client.get(url=_url, ...) is answered r: the try block (extend,
\* _url = next, break) or an except clause and the next turn of the for.
SwGet(r) ==
    /\ apc = "sw_get"
    /\ replies' = Append(replies, r)
    /\ IF r.kind = "ok"
       THEN /\ results' = results \o r.results
            /\ url' = r.next
            /\ apc' = "sw_while"
            /\ UNCHANGED retry
       ELSE /\ retry' = retry + 1
            /\ apc' = "sw_for"
            /\ UNCHANGED <<results, url>>
    /\ UNCHANGED <<id, retries, attempt, waits, result, response_json,
                   raised>>
    /\ UNCHANGED <<attempts, pagination_count, pagination_max, all_devices,
                   max_count, max_calls>>
    /\ UNCHANGED kafkaVars

SwNext ==
    \/ SwStart
    \/ SwWhile
    \/ SwFor
    \/ \E r \in SwReplies(url) : SwGet(r)

SwSpec == SwInit /\ [][SwNext]_vars

\* ------------------------------------------------------------------ claims
\* C1: no two workers are inside the protected work section for the same
\* device at the same time, even when a 60 s lease lapses during the work.
C1_MutualExclusion ==
    \A w1, w2 \in Workers :
        (w1 # w2 /\ InSection(w1) /\ InSection(w2))
            => DeviceOfMsg(w1) # DeviceOfMsg(w2)

\* C2: the committed cursor is past a message only if the message's job has
\* its completion marker: no message left behind the cursor was deferred or
\* failed without a marker.
C2_CommittedOnlyCompleted ==
    \A o \in Offsets : o < committed => ledger[log[o]] = "COMPLETED"

\* C3: the protected work of a job never starts in a state where the
\* ledger already holds COMPLETED for the job.
C3_NoExecutionAfterMarker ==
    [][\A w \in Workers :
          (pc[w] = "enter" /\ pc'[w] = "work")
              => ledger[log[msg[w]]] # "COMPLETED"]_vars

\* The events of an iteration up to a dedup read that found COMPLETED.
SkipRead == <<"recv", "read_completed">>

\* C4: an iteration whose dedup read found COMPLETED attempts no lock, runs
\* no work, writes no marker, and reaches the next message only after its
\* commit.
C4_SkipCompletedJob ==
    \A w \in Workers :
        Has(w, "read_completed") =>
            /\ pc[w] = "skip_commit" => trace[w] = SkipRead
            /\ pc[w] = "poll" => trace[w] = SkipRead \o <<"commit">>
            /\ pc[w] = "finally" => trace[w] = SkipRead \o <<"commit_fail">>
            /\ pc[w] \in {"skip_commit", "poll", "finally"}
            /\ ~is_locked[w]

C4_Witness ==
    \E w \in Workers :
        pc[w] = "poll" /\ trace[w] = SkipRead \o <<"commit">>

\* C5: in an iteration that did not skip, a commit comes after the ledger
\* write of that iteration, and the marker is in the ledger when the commit
\* is issued.
C5_MarkBeforeCommit ==
    \A w \in Workers :
        /\ (pc[w] = "commit" /\ exc[w] = None)
               => Has(w, "mark") /\ ledger[JobOf(w)] = "COMPLETED"
        /\ (Has(w, "commit") /\ ~Has(w, "read_completed"))
               => /\ Has(w, "work_ok")
                  /\ Has(w, "mark")
                  /\ IndexOf(w, "mark") < IndexOf(w, "commit")
                  /\ ledger[JobOf(w)] = "COMPLETED"

C5_Witness ==
    \E w \in Workers :
        /\ pc[w] = "poll"
        /\ trace[w] = <<"recv", "read_absent", "acquired", "work_ok", "mark",
                        "release", "commit">>

\* The events of an iteration up to a lock.acquire() that returned False.
Denied == <<"recv", "read_absent", "acquire_false">>

\* C6: an iteration whose lock.acquire() returned False runs no work,
\* writes no marker, issues no commit, and sleeps the backoff before the
\* next message is requested.
C6_LockDenied ==
    \A w \in Workers :
        Has(w, "acquire_false") =>
            /\ pc[w] \in {"backoff", "poll"}
            /\ pc[w] = "backoff" => trace[w] = Denied
            /\ pc[w] = "poll" => trace[w] = Denied \o <<"backoff_sleep">>
            /\ ~is_locked[w]

C6_Witness ==
    \E w \in Workers :
        pc[w] = "poll" /\ trace[w] = Denied \o <<"backoff_sleep">>

\* Worker w has just been denied the lock for the message at offset o.
DeferredAt(w, o) ==
    pc[w] = "backoff" /\ msg[w] = o /\ Has(w, "acquire_false")

\* C7: a job deferred because its lock was denied is eventually completed
\* (its marker is written, which is also what the skip state requires),
\* when workers and broker keep running and leases lapse.
C7_DeferredEventuallyDone ==
    \A w \in Workers : \A o \in Offsets :
        DeferredAt(w, o) ~> (ledger[log[o]] = "COMPLETED")

\* How often the iteration called lock.release().
Releases(w) == Count(w, {"release", "release_fail"})

\* C8: a guard that reached the locked state and left the critical section
\* (normally, by a failure of the work or of the ledger write, or by
\* cancellation) has called release exactly once, and is_locked is false
\* when that release returned.
C8_ReleaseOnEveryExit ==
    \A w \in Workers :
        Has(w, "acquired") =>
            /\ pc[w] \in {"work", "mark", "aexit"}
                   => Releases(w) = 0 /\ is_locked[w]
            /\ pc[w] \notin {"work", "mark", "aexit"}
                   => /\ Releases(w) = 1
                      /\ Has(w, "release") => ~is_locked[w]

C8_Witness ==
    \E w \in Workers :
        /\ Has(w, "cancelled")
        /\ Has(w, "release")
        /\ ~is_locked[w]
        /\ pc[w] = "finally"

\* C9: a failure of the protected work leaves the loop: the worker does not
\* go on to the backoff and the next message.
C9_WorkFailurePropagates ==
    \A w \in Workers :
        (Has(w, "work_fail") /\ pc[w] # "aexit") => pc[w] = "finally"

\* C10: in an iteration whose protected work failed, no marker is written,
\* no commit is issued, and the lock is released: release is called once
\* and, when it returns, the guard's lease is gone from the store.
C10_WorkFailureCleanup ==
    \A w \in Workers :
        Has(w, "work_fail") =>
            /\ ~Has(w, "work_ok") /\ ~Has(w, "mark") /\ ~Has(w, "commit")
            /\ pc[w] \in {"aexit", "backoff", "poll", "finally"}
            /\ pc[w] # "aexit" =>
                  /\ Releases(w) = 1
                  /\ Has(w, "release")
                        => ~is_locked[w] /\ lease[DeviceOfMsg(w)] # w

C10_Witness ==
    \E w \in Workers :
        /\ Has(w, "work_fail")
        /\ Has(w, "release")
        /\ pc[w] = "finally"
        /\ ledger[JobOf(w)] = None

\* C11: an iteration whose ledger write failed issues no commit, and the
\* failure is surfaced: the worker does not go on to request the messages
\* after the failed one, whose commit would acknowledge it as well.
C11_MarkFailureNotCommitted ==
    \A w \in Workers :
        Has(w, "mark_fail") =>
            /\ ~Has(w, "commit")
            /\ ~(pc[w] = "poll" /\ position[w] > msg[w])

\* C12: a failed ledger read of the dedup check is recovered inside the
\* iteration, which goes on to the lock attempt for the job; it does not
\* end the loop.
C12_ReadFailureFallsThrough ==
    \A w \in Workers :
        Has(w, "read_fail") =>
            pc[w] \in {"enter", "work", "mark", "aexit", "commit", "backoff",
                       "poll"}

\* C13: the commit of a job whose work succeeded is issued while the worker
\* still holds the device lock: release has not been called when the
\* iteration is about to commit.
C13_CommitBeforeRelease ==
    \A w \in Workers :
        pc[w] = "commit" =>
            /\ Has(w, "mark")
            /\ is_locked[w]
            /\ Releases(w) = 0

\* C14: a worker is in the protected section only with is_locked true from
\* a lock.acquire() that returned True in this iteration; an iteration whose
\* acquire returned False or raised has an exception in flight out of
\* __aenter__, is_locked false, and runs neither the work nor the ledger
\* write.
C14_NeverProceedsUnlocked ==
    \A w \in Workers :
        /\ InSection(w) =>
              /\ is_locked[w]
              /\ Has(w, "acquired")
              /\ ~Has(w, "acquire_false") /\ ~Has(w, "acquire_fail")
        /\ (Has(w, "acquire_false") \/ Has(w, "acquire_fail")) =>
              /\ ~is_locked[w]
              /\ pc[w] \in {"backoff", "finally", "poll"}
              /\ pc[w] # "poll" => exc[w] # None
              /\ Count(w, {"acquired", "work_ok", "work_fail", "cancelled",
                           "mark", "mark_fail"}) = 0

C14_Witness ==
    \E w \in Workers :
        /\ Has(w, "acquire_false")
        /\ pc[w] = "backoff"
        /\ exc[w] = "RuntimeError"
        /\ lease[DeviceOfMsg(w)] \in Workers \ {w}

\* C15: every ledger write of a job follows the successful work of its
\* iteration and finds no marker for the job (so a job_id is written at
\* most once, whichever worker handles it), and a marker, once written,
\* is never deleted or replaced.
C15_WrittenOnce ==
    [][/\ \A w \in Workers :
             trace'[w] = Append(trace[w], "mark") =>
                 /\ Has(w, "work_ok")
                 /\ ledger[log[msg[w]]] = None
       /\ \A j \in JobIds :
             ledger[j] = "COMPLETED" => ledger'[j] = "COMPLETED"]_vars

\* C16: when the work and the ledger write of an iteration succeeded and
\* lock.release() then fails, the marker stays written and the iteration
\* goes on to its commit and to the next message: the failed release does
\* not end the loop or keep the job from being acknowledged.
C16_ReleaseFailureBestEffort ==
    \A w \in Workers :
        (Has(w, "mark") /\ Has(w, "release_fail")) =>
            /\ ledger[JobOf(w)] = "COMPLETED"
            /\ pc[w] \in {"commit", "poll"}
            /\ pc[w] = "poll" => Has(w, "commit") \/ Has(w, "commit_fail")

InIteration(w) ==
    pc[w] \in {"dedup", "skip_commit", "enter", "work", "mark", "aexit",
               "commit", "backoff"}

\* C18: a worker handles one message at a time (inside an iteration its
\* consumer has fetched exactly up to that message), a commit of an
\* iteration commits the offset after its own message, and the message a
\* worker takes next lies after the one it handled before: its commits
\* follow the order in which its jobs finish.
C18_CommitsInOrder ==
    [][\A w \in Workers :
          /\ InIteration(w) => position[w] = msg[w] + 1
          /\ (pc[w] = "poll" /\ pc'[w] = "dedup") =>
                 /\ msg'[w] = position[w]
                 /\ msg'[w] > msg[w]
          /\ trace'[w] = Append(trace[w], "commit") =>
                 /\ pc[w] \in {"skip_commit", "commit"}
                 /\ committed' = msg[w] + 1]_vars

C18_Witness ==
    \E w \in Workers :
        /\ pc[w] = "poll"
        /\ msg[w] = 2
        /\ Has(w, "commit")
        /\ Has(w, "mark")
        /\ committed = 3

\* C19: a call of get_pet_by_id with an id makes at most retries requests,
\* a 404 is the last answer of its call and makes it return, and a call
\* whose requests all failed ends by raising RuntimeError.
C19_RetriesThenRuntimeError ==
    (apc \in {"returned", "raised"} /\ id # "") =>
        /\ Len(replies) <= retries
        /\ \A i \in DOMAIN replies :
              replies[i].status_code = 404 =>
                  i = Len(replies) /\ apc = "returned"
        /\ (replies # <<>> /\ \A i \in DOMAIN replies :
                                  PetError(replies[i]) # None)
              => apc = "raised" /\ raised = "RuntimeError"

\* C20: call_api makes at most retries + 1 requests and makes another one
\* only after a failed one and a wait of 2**attempt; it returns the decoded
\* body of the first request that succeeds, and raises the error of request
\* number retries + 1 when that one failed too; it ends in no other way.
C20_CallApiRetries ==
    /\ Len(replies) <= retries + 1
    /\ \A i \in DOMAIN waits : waits[i] = 2^(i - 1)
    /\ \A i \in DOMAIN replies :
          i < Len(replies) => ApiError(replies[i]) # None
    /\ apc = "api_get" => Len(waits) = Len(replies)
    /\ apc = "returned" =>
          /\ replies # <<>>
          /\ ApiError(replies[Len(replies)]) = None
          /\ response_json = Json(replies[Len(replies)].text)
          /\ response_json \notin {None, DecodeError}
          /\ Len(waits) = Len(replies) - 1
          /\ raised = None
    /\ apc = "raised" =>
          /\ Len(replies) = retries + 1
          /\ raised # None
          /\ raised = ApiError(replies[Len(replies)])
          /\ response_json = None

C20_Witness ==
    /\ apc = "returned"
    /\ Len(replies) = 3
    /\ waits = <<1, 2>>
    /\ response_json = "dict()"

\* C24: a worker whose consumer was started and that left the loop by an
\* exception has stopped its consumer exactly once when process_jobs has
\* ended, and not before; when it leaves the loop after a release that
\* returned, its guard's is_locked is false.
C24_ConsumerStoppedOnce ==
    \A w \in Workers :
        /\ pc[w] = "ended" => stops[w] = 1
        /\ pc[w] # "ended" => stops[w] = 0
        /\ pc[w] = "finally" =>
              /\ exc[w] # None
              /\ Has(w, "release") => ~is_locked[w]

C24_Witness ==
    \E w \in Workers :
        /\ pc[w] = "ended"
        /\ stops[w] = 1
        /\ exc[w] = "CancelledError"

\* C21: the wrapper of retry_execution calls the function at most retries
\* times and only after calls that raised; it returns the value of the
\* first call that returns, and None when retries calls raised; it never
\* raises.
C21_RetryExecution ==
    /\ Len(replies) <= retries
    /\ \A i \in DOMAIN replies : i < Len(replies) => replies[i] # Success
    /\ raised = None /\ apc # "raised"
    /\ apc = "returned" =>
          IF replies # <<>> /\ replies[Len(replies)] = Success
          THEN result = Success
          ELSE result = None /\ Len(replies) = retries

C21_Witness ==
    /\ apc = "returned"
    /\ retries = DefaultRetries
    /\ Len(replies) = DefaultRetries
    /\ result = None

\* The devices of the pages rs, in page order.
RECURSIVE PagesOf(_)
PagesOf(rs) ==
    IF rs = <<>> THEN <<>> ELSE rs[1].devices \o PagesOf(Tail(rs))

\* C22: get_all_devices makes at most pagination_max - 1 page requests and
\* makes another one exactly when the last page carried a next_url; it
\* returns the devices of all fetched pages in page order when the last
\* page has no next_url, and it raises SystemError only when the last page
\* it fetched has a next_url (more pages remain).
C22_Pagination ==
    /\ Len(replies) <= pagination_max - 1
    /\ \A i \in DOMAIN replies :
          i < Len(replies) => replies[i].next_url # NoUrl
    /\ (apc = "dev_call" /\ replies # <<>>) =>
          replies[Len(replies)].next_url # NoUrl
    /\ apc = "returned" =>
          /\ replies[Len(replies)].kind = "ok"
          /\ replies[Len(replies)].next_url = NoUrl
          /\ result = PagesOf(replies)
          /\ result = all_devices
    /\ (apc = "raised" /\ raised = "SystemError") =>
          replies[Len(replies)].next_url # NoUrl

\* The number of failed requests at the end of rs: the requests made for
\* the current _url, which changes only with a successful request.
RECURSIVE FailedTail(_)
FailedTail(rs) ==
    IF rs = <<>> \/ rs[Len(rs)].kind = "ok" THEN 0
    ELSE 1 + FailedTail(SubSeq(rs, 1, Len(rs) - 1))

\* C23: get_all_starwars_people makes at most max_calls requests, and at
\* most retries failed requests in a row for one page URL.
C23_BoundedCalls ==
    /\ Len(replies) <= max_calls
    /\ FailedTail(replies) <= retries

====
